---- MODULE Spec2Model ----
(***************************************************************************)
(* Field collection of graphql/exec.go: CollectFields walks a selection    *)
(* set depth-first, left to right, filters nodes by @skip/@include,        *)
(* expands inline fragments and fragment spreads whose type condition is   *)
(* satisfied, and merges the collected fields into an ordered list.        *)
(*                                                                         *)
(* The recursion of collectFields is modelled with an explicit call stack: *)
(* one frame per activation (its selSet, the loop index i and its local    *)
(* groupedFields), one step per iteration of the `for` loop, and one step  *)
(* per return.  A Go panic unwinds the whole stack (nothing recovers).     *)
(* Go values of type interface{} are records [type, v] of strings.         *)
(*                                                                         *)
(* A call is made on a document drawn from one of three families:          *)
(* structural documents (Spec, FairSpec), type-condition documents         *)
(* (SpecTypes) and directive documents (SpecDirectives).                   *)
(***************************************************************************)
EXTENDS Integers, Sequences, FiniteSets, TLC

VARIABLES
    reqCtx,      \* *RequestContext: [Variables, Fragments] (Doc.Fragments by name)
    selSet,      \* the selection set CollectFields is called with
    satisfies,   \* the []string of satisfied type names
    status,      \* "idle" | "running" | "returned" | "panicked"
    stack,       \* activations of collectFields, innermost last
    visited,     \* the map[string]bool shared by all activations of one call
    result,      \* the []CollectedField the call returned
    panicValue   \* the value the call panicked with (<<>>: none)

vars == <<reqCtx, selSet, satisfies, status, stack, visited, result, panicValue>>

inputs == <<reqCtx, selSet, satisfies>>

------------------------------------------------------------------------------
(* The AST the collector consumes.                                         *)

Field(alias, name, arguments, directives, selectionSet) ==
    [kind |-> "Field", Alias |-> alias, Name |-> name, Arguments |-> arguments,
     Directives |-> directives, SelectionSet |-> selectionSet]

InlineFragment(typeCondition, directives, selectionSet) ==
    [kind |-> "InlineFragment", TypeCondition |-> typeCondition,
     Directives |-> directives, SelectionSet |-> selectionSet]

FragmentSpread(name, directives) ==
    [kind |-> "FragmentSpread", Name |-> name, Directives |-> directives]

\* A Selection of a dynamic type other than the three above.
Unsupported == [kind |-> "Unsupported"]

FragmentDefinition(typeCondition, selectionSet) ==
    [TypeCondition |-> typeCondition, SelectionSet |-> selectionSet]

Argument(name, kind, raw) == [Name |-> name, Value |-> [Kind |-> kind, Raw |-> raw]]

Directive(name, arguments) == [Name |-> name, Arguments |-> arguments]

\* Go values held in an interface{}.
GoNil == [type |-> "nil", v |-> ""]

GoBool(b) == [type |-> "bool", v |-> b]

GoString(s) == [type |-> "string", v |-> s]

\* list.ForName(name) != nil
HasName(list, name) == \E i \in DOMAIN list : list[i].Name = name

\* list.ForName(name): the first element of that name
ForName(list, name) ==
    list[CHOOSE i \in DOMAIN list :
            /\ list[i].Name = name
            /\ \A j \in 1..(i - 1) : list[j].Name # name]

\* arg.Value.Value(variables): a variable yields its bound value (nil when
\* unbound), a literal yields its own value.
Value(v, variables) ==
    IF v.Kind = "Variable"
    THEN IF v.Raw \in DOMAIN variables THEN variables[v.Raw] ELSE GoNil
    ELSE IF v.Kind = "BooleanValue" THEN GoBool(v.Raw)
    ELSE GoString(v.Raw)

------------------------------------------------------------------------------
(* The pure helpers of exec.go.  A result record carries `panic`: <<>>     *)
(* when the call returned, the panic value otherwise.                      *)

NoPanic == <<>>

\* resolveIfArgument with a missing `if` read as false instead of a panic.
resolveIfArgument_MissingIfIsFalse(d, variables) ==
    IF ~HasName(d.Arguments, "if")
    THEN [panic |-> NoPanic, ret |-> FALSE]
    ELSE LET value == Value(ForName(d.Arguments, "if").Value, variables)
         IN  IF value.type # "bool"
             THEN [panic |-> <<d.Name, "argument 'if' is not a boolean">>, ret |-> FALSE]
             ELSE [panic |-> NoPanic, ret |-> (value.v = "true")]

resolveIfArgument(d, variables) ==
    IF ~HasName(d.Arguments, "if")
    THEN [panic |-> <<d.Name, "argument 'if' not defined">>, ret |-> FALSE]
    ELSE LET value == Value(ForName(d.Arguments, "if").Value, variables)
         IN  IF value.type # "bool"
             THEN [panic |-> <<d.Name, "argument 'if' is not a boolean">>, ret |-> FALSE]
             ELSE [panic |-> NoPanic, ret |-> (value.v = "true")]

\* shouldIncludeNode with the negation of @skip's `if` forgotten.
shouldIncludeNode_SkipNotNegated(directives, variables) ==
    IF HasName(directives, "skip")
    THEN resolveIfArgument(ForName(directives, "skip"), variables)
    ELSE IF HasName(directives, "include")
    THEN resolveIfArgument(ForName(directives, "include"), variables)
    ELSE [panic |-> NoPanic, ret |-> TRUE]

\* shouldIncludeNode consulting @include also when @skip is present and false.
shouldIncludeNode_BothConsulted(directives, variables) ==
    LET skip == IF HasName(directives, "skip")
                THEN resolveIfArgument(ForName(directives, "skip"), variables)
                ELSE [panic |-> NoPanic, ret |-> FALSE]
        include == IF HasName(directives, "include")
                   THEN resolveIfArgument(ForName(directives, "include"), variables)
                   ELSE [panic |-> NoPanic, ret |-> TRUE]
    IN  IF skip.panic # NoPanic THEN [panic |-> skip.panic, ret |-> FALSE]
        ELSE IF skip.ret THEN [panic |-> NoPanic, ret |-> FALSE]
        ELSE include

shouldIncludeNode(directives, variables) ==
    IF HasName(directives, "skip")
    THEN LET r == resolveIfArgument(ForName(directives, "skip"), variables)
         IN  [panic |-> r.panic, ret |-> ~r.ret]
    ELSE IF HasName(directives, "include")
    THEN resolveIfArgument(ForName(directives, "include"), variables)
    ELSE [panic |-> NoPanic, ret |-> TRUE]

instanceOf(val, sats) == \E i \in DOMAIN sats : val = sats[i]

\* Returns the list after the call and the index of the element the returned
\* pointer refers to.
getOrCreateField(c, name, created) ==
    IF \E i \in DOMAIN c : c[i].Alias = name
    THEN [c |-> c,
          i |-> CHOOSE i \in DOMAIN c :
                    /\ c[i].Alias = name
                    /\ \A j \in 1..(i - 1) : c[j].Alias # name]
    ELSE [c |-> Append(c, created), i |-> Len(c) + 1]

\* The creator closure of the Field case: Args from the defining occurrence;
\* an argument bound to a variable missing from the map gets no entry.
ResolveArgs(arguments, variables) ==
    LET bound == {i \in DOMAIN arguments :
                     \/ arguments[i].Value.Kind # "Variable"
                     \/ arguments[i].Value.Raw \in DOMAIN variables}
        last(n) == CHOOSE i \in bound :
                     /\ arguments[i].Name = n
                     /\ \A j \in bound : arguments[j].Name = n => j <= i
    IN  [n \in {arguments[i].Name : i \in bound} |->
            Value(arguments[last(n)].Value, variables)]

NewCollectedField(sel, variables) ==
    [Alias |-> sel.Alias, Name |-> sel.Name,
     Args |-> ResolveArgs(sel.Arguments, variables), Selections |-> <<>>]

\* The Field case once the node is included.
CollectField(groupedFields, sel, variables) ==
    LET r == getOrCreateField(groupedFields, sel.Alias, NewCollectedField(sel, variables))
    IN  [r.c EXCEPT ![r.i].Selections = @ \o sel.SelectionSet]

\* One iteration of the loop over a nested call's result.
MergeChildField(groupedFields, childField) ==
    LET r == getOrCreateField(groupedFields, childField.Name, childField)
    IN  [r.c EXCEPT ![r.i].Selections = @ \o childField.Selections]

\* The loop over a nested call's result.
RECURSIVE MergeChildFields(_, _)
MergeChildFields(groupedFields, childFields) ==
    IF childFields = <<>>
    THEN groupedFields
    ELSE MergeChildFields(MergeChildField(groupedFields, Head(childFields)),
                          Tail(childFields))

------------------------------------------------------------------------------
(* Activations.                                                            *)

Frame(set) == [selSet |-> set, i |-> 1, groupedFields |-> <<>>]

Top == stack[Len(stack)]

\* The activation on top of the stack is at an iteration of its loop.
AtNode ==
    /\ status = "running"
    /\ stack # <<>>
    /\ Top.i <= Len(Top.selSet)

\* The `sel` of that iteration.
Sel == Top.selSet[Top.i]

\* `continue`, or the end of the loop body.
Continue(groupedFields) ==
    stack' = [stack EXCEPT ![Len(stack)] =
                 [@ EXCEPT !.i = @ + 1, !.groupedFields = groupedFields]]

Call(set) == stack' = Append(stack, Frame(set))

Panic(value) ==
    /\ status' = "panicked"
    /\ panicValue' = value
    /\ stack' = <<>>
    /\ UNCHANGED <<result, inputs>>

------------------------------------------------------------------------------
(* The operations.                                                         *)

CollectFields ==
    /\ status = "idle"
    /\ status' = "running"
    /\ visited' = {}
    /\ stack' = <<Frame(selSet)>>
    /\ UNCHANGED <<result, panicValue, inputs>>

FieldStep ==
    /\ AtNode
    /\ Sel.kind = "Field"
    /\ LET inc == shouldIncludeNode(Sel.Directives, reqCtx.Variables)
       IN  IF inc.panic # NoPanic
           THEN Panic(inc.panic) /\ UNCHANGED visited
           ELSE /\ IF ~inc.ret
                   THEN Continue(Top.groupedFields)
                   ELSE Continue(CollectField(Top.groupedFields, Sel, reqCtx.Variables))
                /\ UNCHANGED <<status, visited, result, panicValue, inputs>>

InlineFragmentStep ==
    /\ AtNode
    /\ Sel.kind = "InlineFragment"
    /\ LET inc == shouldIncludeNode(Sel.Directives, reqCtx.Variables)
       IN  IF inc.panic # NoPanic
           THEN Panic(inc.panic) /\ UNCHANGED visited
           ELSE /\ IF ~inc.ret \/ ~instanceOf(Sel.TypeCondition, satisfies)
                   THEN Continue(Top.groupedFields)
                   ELSE Call(Sel.SelectionSet)
                /\ UNCHANGED <<status, visited, result, panicValue, inputs>>

FragmentSpreadStep ==
    /\ AtNode
    /\ Sel.kind = "FragmentSpread"
    /\ LET inc == shouldIncludeNode(Sel.Directives, reqCtx.Variables)
           fragmentName == Sel.Name
       IN  IF inc.panic # NoPanic
           THEN Panic(inc.panic) /\ UNCHANGED visited
           ELSE IF ~inc.ret \/ fragmentName \in visited
           THEN /\ Continue(Top.groupedFields)
                /\ UNCHANGED <<status, visited, result, panicValue, inputs>>
           ELSE IF fragmentName \notin DOMAIN reqCtx.Fragments
           THEN /\ Panic(<<"missing fragment", fragmentName>>)
                /\ visited' = visited \cup {fragmentName}
           ELSE /\ visited' = visited \cup {fragmentName}
                /\ IF ~instanceOf(reqCtx.Fragments[fragmentName].TypeCondition, satisfies)
                   THEN Continue(Top.groupedFields)
                   ELSE Call(reqCtx.Fragments[fragmentName].SelectionSet)
                /\ UNCHANGED <<status, result, panicValue, inputs>>

UnsupportedStep ==
    /\ AtNode
    /\ Sel.kind \notin {"Field", "InlineFragment", "FragmentSpread"}
    /\ Panic(<<"unsupported", Sel.kind>>)
    /\ UNCHANGED visited

\* The loop of the activation on top is over: `return groupedFields`.  A nested
\* activation returns into the loop that merges its fields into the caller's
\* list; the outermost returns CollectFields' result.
ReturnStep ==
    /\ status = "running"
    /\ stack # <<>>
    /\ Top.i > Len(Top.selSet)
    /\ IF Len(stack) = 1
       THEN /\ status' = "returned"
            /\ result' = Top.groupedFields
            /\ stack' = <<>>
            /\ UNCHANGED <<visited, panicValue, inputs>>
       ELSE /\ LET caller == stack[Len(stack) - 1]
                   merged == MergeChildFields(caller.groupedFields, Top.groupedFields)
               IN  stack' = SubSeq(stack, 1, Len(stack) - 2) \o
                                <<[caller EXCEPT !.i = @ + 1, !.groupedFields = merged]>>
            /\ UNCHANGED <<status, visited, result, panicValue, inputs>>

Next ==
    \/ CollectFields
    \/ FieldStep
    \/ InlineFragmentStep
    \/ FragmentSpreadStep
    \/ UnsupportedStep
    \/ ReturnStep

------------------------------------------------------------------------------
(* The documents the calls are made on.                                    *)

MaxSel == 2          \* nodes of a selection set, structural documents
MaxFragSel == 2      \* nodes of a named fragment's selection set
MaxDirSel == 2       \* nodes of a selection set, directive documents
MaxTypeSel == 2      \* nodes of a selection set, type-condition documents

\* The non-empty sequences over S of length at most n.
SeqsUpTo(S, n) == UNION {[1..k -> S] : k \in 1..n}

SkipIf(raw) == Directive("skip", <<Argument("if", "BooleanValue", raw)>>)

IncludeIf(raw) == Directive("include", <<Argument("if", "BooleanValue", raw)>>)

IncludeVar(name) == Directive("include", <<Argument("if", "Variable", name)>>)

SkipNoIf == Directive("skip", <<>>)

IncludeNoIf == Directive("include", <<>>)

IncludeString == Directive("include", <<Argument("if", "StringValue", "yes")>>)

DirectiveLists ==
    {<<>>,
     <<SkipIf("true")>>, <<SkipIf("false")>>,
     <<IncludeIf("true")>>, <<IncludeIf("false")>>,
     <<SkipIf("true"), IncludeIf("true")>>,
     <<SkipIf("false"), IncludeIf("false")>>,
     <<IncludeIf("false"), SkipIf("false")>>,
     <<IncludeVar("showName")>>, <<IncludeVar("unbound")>>,
     <<SkipNoIf>>, <<IncludeString>>}

ContainerDirectiveLists ==
    {<<>>, <<SkipIf("false"), IncludeIf("false")>>, <<SkipIf("false"), IncludeNoIf>>,
     <<IncludeVar("showName")>>, <<SkipNoIf>>}

Leaf(name) == Field(name, name, <<>>, <<>>, <<>>)

\* Structural documents: fields with and without alias and children, inline
\* fragments on a type, fragments A and B that may spread each other, a
\* spread of an undefined fragment, an unknown node.
FieldA1 == Field("a", "a", <<>>, <<>>, <<Leaf("c1")>>)

FieldA2 == Field("a", "a", <<>>, <<>>, <<Leaf("c2")>>)

FieldB == Field("b", "b", <<>>, <<>>, <<>>)

FieldX == Field("x", "a", <<>>, <<>>, <<Leaf("c1")>>)

TopNodes ==
    {FieldA2, FieldX, Unsupported,
     FragmentSpread("A", <<>>), FragmentSpread("B", <<>>), FragmentSpread("Missing", <<>>)}
    \cup {InlineFragment(tc, <<>>, body) :
             tc \in {"Dog", "Cat"},
             body \in {<<FieldX>>, <<FieldA1>>, <<FieldB, FieldX>>}}

FragmentTables ==
    {[n \in {"A", "B"} |->
        IF n = "A" THEN FragmentDefinition("Dog", a) ELSE FragmentDefinition("Cat", b)] :
        a \in SeqsUpTo({FieldA1, FieldX, FragmentSpread("B", <<>>)}, MaxFragSel),
        b \in SeqsUpTo({FieldB, FieldX, FragmentSpread("A", <<>>)}, MaxFragSel)}

\* Type-condition documents: inline fragments with no type condition and on
\* Dog or Cat, a fragment on Dog, under every set of satisfied types.
TypeNodes ==
    {FieldB, Unsupported, FragmentSpread("A", <<>>)}
    \cup {InlineFragment(tc, d, body) :
             tc \in {"", "Dog", "Cat"},
             d \in {<<>>, <<SkipIf("true")>>},
             body \in {<<FieldB>>, <<FieldA1, FragmentSpread("A", <<>>)>>}}

TypeFragmentTables ==
    {[n \in {"A"} |-> FragmentDefinition("Dog", body)] :
        body \in {<<FieldA2>>, <<InlineFragment("", <<>>, <<FieldA2>>)>>}}

\* Directive documents: every shape of @skip/@include on fields, on inline
\* fragments and on spreads, with fatal nodes also inside fragment A.
FieldWithArgs(d) ==
    Field("b", "b",
          <<Argument("first", "Variable", "showName"),
            Argument("after", "Variable", "unbound"),
            Argument("sort", "StringValue", "asc")>>, d, <<>>)

DirectiveNodes ==
    {Field("a", "a", <<>>, d, <<>>) : d \in DirectiveLists}
    \cup {FieldWithArgs(d) : d \in {<<SkipIf("true")>>, <<IncludeVar("showName")>>}}
    \cup {InlineFragment("Dog", d, <<Leaf("b")>>) : d \in ContainerDirectiveLists}
    \cup {FragmentSpread("A", d) : d \in {<<>>, <<IncludeVar("showName")>>}}
    \cup {FragmentSpread("Missing", d) : d \in {<<>>, <<SkipIf("true")>>}}
    \cup {Unsupported}

DirectiveFragmentTables ==
    {[n \in {"A"} |-> FragmentDefinition("Dog", body)] :
        body \in {<<Leaf("c")>>, <<Field("c", "c", <<>>, <<SkipNoIf>>, <<>>)>>,
                  <<FragmentSpread("Missing", <<>>)>>, <<Unsupported>>}}

VariableMaps == {[n \in {"showName"} |-> GoBool(b)] : b \in {"true", "false"}}

\* Before the call: nothing is running, nothing was returned.
NotCalled ==
    /\ status = "idle"
    /\ stack = <<>>
    /\ visited = {}
    /\ result = <<>>
    /\ panicValue = NoPanic

Init ==
    /\ NotCalled
    /\ selSet \in SeqsUpTo(TopNodes, MaxSel)
    /\ reqCtx \in {[Variables |-> v, Fragments |-> f] :
                      v \in {[n \in {"showName"} |-> GoBool("true")]}, f \in FragmentTables}
    /\ satisfies \in {<<"Dog">>, <<"Dog", "Cat">>}

InitDirectives ==
    /\ NotCalled
    /\ selSet \in SeqsUpTo(DirectiveNodes, MaxDirSel)
    /\ reqCtx \in {[Variables |-> v, Fragments |-> f] :
                      v \in VariableMaps, f \in DirectiveFragmentTables}
    /\ satisfies \in {<<"Dog">>}

InitTypes ==
    /\ NotCalled
    /\ selSet \in SeqsUpTo(TypeNodes, MaxTypeSel)
    /\ reqCtx \in {[Variables |-> <<>>, Fragments |-> f] : f \in TypeFragmentTables}
    /\ satisfies \in {<<"Dog">>, <<"Cat">>, <<"Dog", "Cat">>}

Spec == Init /\ [][Next]_vars

SpecTypes == InitTypes /\ [][Next]_vars

SpecDirectives == InitDirectives /\ [][Next]_vars

\* The call is a sequential computation: it keeps taking steps until it
\* returns or panics.
FairSpec == Spec /\ WF_vars(Next)

------------------------------------------------------------------------------
(* What the specification says of a document, stated independently of the   *)
(* code: which directives let a node through, and the depth-first,          *)
(* left-to-right walk of the field occurrences that contribute.             *)

\* The value of a directive's `if` (nil when the argument is missing).
IfValue(d) ==
    IF HasName(d.Arguments, "if")
    THEN Value(ForName(d.Arguments, "if").Value, reqCtx.Variables)
    ELSE GoNil

\* The one directive consulted on a node: @skip drops it when its `if` is
\* true; without @skip, @include drops it when its `if` is false.
Dropped(directives) ==
    \/ /\ HasName(directives, "skip")
       /\ IfValue(ForName(directives, "skip")) = GoBool("true")
    \/ /\ ~HasName(directives, "skip")
       /\ HasName(directives, "include")
       /\ IfValue(ForName(directives, "include")) = GoBool("false")

\* The consulted directive has no `if`, or an `if` that is no boolean.
Malformed(directives) ==
    \/ /\ HasName(directives, "skip")
       /\ IfValue(ForName(directives, "skip")).type # "bool"
    \/ /\ ~HasName(directives, "skip")
       /\ HasName(directives, "include")
       /\ IfValue(ForName(directives, "include")).type # "bool"

\* The consulted directive evaluates to "include".
ControlPass(directives) == ~Dropped(directives) /\ ~Malformed(directives)

\* Every @skip has if = false and every @include has if = true.
StrictPass(directives) ==
    \A i \in DOMAIN directives :
        /\ directives[i].Name = "skip" => IfValue(directives[i]) = GoBool("false")
        /\ directives[i].Name = "include" => IfValue(directives[i]) = GoBool("true")

Pass(mode, directives) ==
    IF mode = "strict" THEN StrictPass(directives) ELSE ControlPass(directives)

\* A type condition is compatible: none declared, or a satisfied type.
Matches(typeCondition) ==
    typeCondition = "" \/ \E i \in DOMAIN satisfies : satisfies[i] = typeCondition

\* The field occurrences that contribute, in encounter order: `occ`, with the
\* fragment names expanded so far threaded through the walk.
RECURSIVE RefWalk(_, _)
RefWalk(set, seen) ==
    IF set = <<>>
    THEN [occ |-> <<>>, seen |-> seen]
    ELSE LET n == Head(set)
             none == [occ |-> <<>>, seen |-> seen]
             here ==
                 IF n.kind = "Field"
                 THEN IF ControlPass(n.Directives) THEN [occ |-> <<n>>, seen |-> seen] ELSE none
                 ELSE IF n.kind = "InlineFragment"
                 THEN IF ControlPass(n.Directives) /\ Matches(n.TypeCondition)
                      THEN RefWalk(n.SelectionSet, seen)
                      ELSE none
                 ELSE IF n.kind = "FragmentSpread"
                 THEN IF ControlPass(n.Directives) /\ n.Name \notin seen
                      THEN IF /\ n.Name \in DOMAIN reqCtx.Fragments
                              /\ Matches(reqCtx.Fragments[n.Name].TypeCondition)
                           THEN RefWalk(reqCtx.Fragments[n.Name].SelectionSet,
                                        seen \cup {n.Name})
                           ELSE [occ |-> <<>>, seen |-> seen \cup {n.Name}]
                      ELSE none
                 ELSE none
             rest == RefWalk(Tail(set), here.seen)
         IN  [occ |-> here.occ \o rest.occ, seen |-> rest.seen]

Occurrences == RefWalk(selSet, {}).occ

\* The response keys of a list of fields or of collected fields, in order.
Keys(fields) == [i \in DOMAIN fields |-> fields[i].Alias]

\* s without the later repetitions of its elements.
RECURSIVE FirstAppearance(_)
FirstAppearance(s) ==
    IF s = <<>>
    THEN <<>>
    ELSE LET init == FirstAppearance(SubSeq(s, 1, Len(s) - 1))
             x == s[Len(s)]
         IN  IF \E i \in DOMAIN init : init[i] = x THEN init ELSE Append(init, x)

\* The child selection sets of the occurrences of a response key, concatenated.
RECURSIVE ChildrenOf(_, _)
ChildrenOf(occ, key) ==
    IF occ = <<>>
    THEN <<>>
    ELSE (IF Head(occ).Alias = key THEN Head(occ).SelectionSet ELSE <<>>)
            \o ChildrenOf(Tail(occ), key)

Count(x, s) == Cardinality({i \in DOMAIN s : s[i] = x})

RangeOf(s) == {s[i] : i \in DOMAIN s}

------------------------------------------------------------------------------
(* C1.  Alias uniqueness: the list CollectFields returns holds no two       *)
(* entries with the same response key (Alias).                              *)
C1_AliasUnique ==
    status = "returned" =>
        \A i, j \in DOMAIN result : result[i].Alias = result[j].Alias => i = j

(* C2.  Merge correctness: every entry's Selections is the concatenation,   *)
(* in encounter order, of the child selection sets of the occurrences that  *)
(* contribute to its response key, each exactly once.                       *)
C2_MergeConcatenation ==
    status = "returned" =>
        \A i \in DOMAIN result :
            result[i].Selections = ChildrenOf(Occurrences, result[i].Alias)

(* C3.  Merge by response key: when an inline fragment or a fragment spread *)
(* has been expanded, every field it yields has its response key in the     *)
(* outer list afterwards, and no outer entry of another response key is     *)
(* touched (a yielded field goes to the entry of its own key, or becomes a  *)
(* new entry under its own key).                                            *)
NestedReturn ==
    /\ status = "running"
    /\ Len(stack) >= 2
    /\ Top.i > Len(Top.selSet)

C3_MergeByResponseKey ==
    [][NestedReturn =>
        LET outer == stack[Len(stack) - 1].groupedFields
            yielded == Top.groupedFields
            after == stack'[Len(stack')].groupedFields
        IN  /\ \A k \in DOMAIN yielded :
                  \E i \in DOMAIN after : after[i].Alias = yielded[k].Alias
            /\ \A i \in DOMAIN outer :
                  outer[i].Alias \notin RangeOf(Keys(yielded)) => after[i] = outer[i]
            /\ \A i \in DOMAIN after :
                  i > Len(outer) => after[i].Alias \in RangeOf(Keys(yielded))]_vars

(* C6.  Type-condition narrowing: an inline fragment whose directives pass  *)
(* is skipped if and only if it declares a type condition that is not among *)
(* the satisfied types; otherwise its selection set is collected.           *)
C6_InlineTypeCondition ==
    [][(AtNode /\ Sel.kind = "InlineFragment" /\ ControlPass(Sel.Directives)) =>
        LET declaredAndUnsatisfied ==
                Sel.TypeCondition # "" /\ Sel.TypeCondition \notin RangeOf(satisfies)
        IN  IF declaredAndUnsatisfied
            THEN /\ Len(stack') = Len(stack)
                 /\ stack'[Len(stack')].groupedFields = Top.groupedFields
            ELSE /\ Len(stack') = Len(stack) + 1
                 /\ stack'[Len(stack')].selSet = Sel.SelectionSet]_vars

(* C9.  Ordering: the response keys of the result are, in order, the        *)
(* response keys of the contributing field occurrences of the depth-first,  *)
(* left-to-right walk, each at its first appearance.                        *)
C9_FirstAppearanceOrder ==
    status = "returned" => Keys(result) = FirstAppearance(Keys(Occurrences))

\* The field nodes of a selection set, those of its inline fragments included
\* (not those a spread would bring in, nor the fields' own children).
RECURSIVE FieldsIn(_)
FieldsIn(set) ==
    IF set = <<>>
    THEN <<>>
    ELSE LET n == Head(set)
         IN  (IF n.kind = "Field" THEN <<n>>
              ELSE IF n.kind = "InlineFragment" THEN FieldsIn(n.SelectionSet)
              ELSE <<>>) \o FieldsIn(Tail(set))

\* The fragment names a selection set spreads, inline fragments included.
RECURSIVE SpreadsIn(_)
SpreadsIn(set) ==
    IF set = <<>>
    THEN <<>>
    ELSE LET n == Head(set)
         IN  (IF n.kind = "FragmentSpread" THEN <<n.Name>>
              ELSE IF n.kind = "InlineFragment" THEN SpreadsIn(n.SelectionSet)
              ELSE <<>>) \o SpreadsIn(Tail(set))

RECURSIVE FieldsOfFragments(_)
FieldsOfFragments(names) ==
    IF names = {}
    THEN <<>>
    ELSE LET n == CHOOSE x \in names : TRUE
         IN  FieldsIn(reqCtx.Fragments[n].SelectionSet) \o FieldsOfFragments(names \ {n})

RECURSIVE SpreadsOfFragments(_)
SpreadsOfFragments(names) ==
    IF names = {}
    THEN <<>>
    ELSE LET n == CHOOSE x \in names : TRUE
         IN  SpreadsIn(reqCtx.Fragments[n].SelectionSet) \o SpreadsOfFragments(names \ {n})

\* Every field node of the document, each fragment definition counted once.
DocumentFields == FieldsIn(selSet) \o FieldsOfFragments(DOMAIN reqCtx.Fragments)

DocumentSpreads == SpreadsIn(selSet) \o SpreadsOfFragments(DOMAIN reqCtx.Fragments)

\* The selection set spreads an applicable fragment b that is spread again:
\* by another applicable fragment a of the selection set, or by the selection
\* set itself.
SpreadMoreThanOnce ==
    \E a, b \in DOMAIN reqCtx.Fragments :
        /\ Matches(reqCtx.Fragments[a].TypeCondition)
        /\ Matches(reqCtx.Fragments[b].TypeCondition)
        /\ IF a = b
           THEN Count(b, SpreadsIn(selSet)) >= 2
           ELSE /\ Count(a, SpreadsIn(selSet)) > 0
                /\ Count(b, SpreadsIn(selSet)) > 0
                /\ Count(b, SpreadsIn(reqCtx.Fragments[a].SelectionSet)) > 0

\* No response key twice, and no child selection more often in an entry than
\* the document's fields of that response key hold it.
CollectedOnce(fields) ==
    /\ \A i, j \in DOMAIN fields : fields[i].Alias = fields[j].Alias => i = j
    /\ \A i \in DOMAIN fields : \A c \in RangeOf(fields[i].Selections) :
          Count(c, fields[i].Selections)
              <= Count(c, ChildrenOf(DocumentFields, fields[i].Alias))

(* C7.  Fragment de-duplication: within one call a named fragment is         *)
(* expanded at most once (only when its name is not yet visited, and the     *)
(* name stays visited), and when fragment a spreads b and b is also spread   *)
(* at the same level the result has no duplicate response key and no         *)
(* duplicate child-selection entry.                                          *)
Expands(name) ==
    /\ AtNode
    /\ Sel.kind = "FragmentSpread"
    /\ Sel.Name = name
    /\ Len(stack') = Len(stack) + 1

C7_FragmentExpandedOnce ==
    [][/\ visited \subseteq visited'
       /\ \A name \in DOMAIN reqCtx.Fragments :
             Expands(name) => name \notin visited /\ name \in visited'
       /\ (status' = "returned" /\ SpreadMoreThanOnce) => CollectedOnce(result')]_vars

(* C8.  Cycle safety: every call ends, and when fragments a and b spread    *)
(* each other, both apply and a is spread by the selection set, the result  *)
(* holds each field of a and of b exactly once.                             *)
Cycle(a, b) ==
    /\ a # b
    /\ Count(b, SpreadsIn(reqCtx.Fragments[a].SelectionSet)) > 0
    /\ Count(a, SpreadsIn(reqCtx.Fragments[b].SelectionSet)) > 0
    /\ Matches(reqCtx.Fragments[a].TypeCondition)
    /\ Matches(reqCtx.Fragments[b].TypeCondition)
    /\ Count(a, SpreadsIn(selSet)) > 0

CycleFieldsOnce ==
    \A a, b \in DOMAIN reqCtx.Fragments :
        Cycle(a, b) =>
            \A n \in RangeOf(FieldsIn(reqCtx.Fragments[a].SelectionSet)
                                \o FieldsIn(reqCtx.Fragments[b].SelectionSet)) :
                Count(n.Alias, Keys(result)) = 1

Terminates == <>(status \in {"returned", "panicked"})

C8_CycleSafety ==
    /\ Terminates
    /\ [](status = "returned" => CycleFieldsOnce)

\* The <<Alias, Name>> of the fields a selection set can bring in through
\* nodes whose directives all pass (`seen` cuts fragment cycles).
RECURSIVE PassingFields(_, _, _)
PassingFields(set, mode, seen) ==
    IF set = <<>>
    THEN {}
    ELSE LET n == Head(set)
             here ==
                 IF n.kind = "Field"
                 THEN IF Pass(mode, n.Directives) THEN {<<n.Alias, n.Name>>} ELSE {}
                 ELSE IF n.kind = "InlineFragment"
                 THEN IF Pass(mode, n.Directives)
                      THEN PassingFields(n.SelectionSet, mode, seen)
                      ELSE {}
                 ELSE IF n.kind = "FragmentSpread"
                 THEN IF /\ Pass(mode, n.Directives)
                         /\ n.Name \notin seen
                         /\ n.Name \in DOMAIN reqCtx.Fragments
                      THEN PassingFields(reqCtx.Fragments[n.Name].SelectionSet, mode,
                                         seen \cup {n.Name})
                      ELSE {}
                 ELSE {}
         IN  here \cup PassingFields(Tail(set), mode, seen)

(* C4 as claimed.  A field is in the result only if every @skip on it and   *)
(* on each fragment of its path has if = false and every @include has       *)
(* if = true.                                                                *)
C4_EveryDirectivePasses ==
    status = "returned" =>
        \A i \in DOMAIN result :
            <<result[i].Alias, result[i].Name>> \in PassingFields(selSet, "strict", {})

(* C4 as amended.  A field is in the result only if, on it and on each       *)
(* fragment of its path, the one consulted directive evaluates to include:   *)
(* @skip, when present, has if = false; otherwise @include, when present,    *)
(* has if = true.                                                            *)
C4_ConsultedDirectivePasses ==
    status = "returned" =>
        \A i \in DOMAIN result :
            <<result[i].Alias, result[i].Name>> \in PassingFields(selSet, "consulted", {})

\* A field came in through an inline fragment that carries directives, beside
\* a field its own directive dropped.
C4_Witness ==
    /\ status = "returned"
    /\ Len(selSet) = 2
    /\ selSet[1].kind = "InlineFragment"
    /\ selSet[1].Directives # <<>>
    /\ selSet[2].kind = "Field"
    /\ Dropped(selSet[2].Directives)
    /\ Keys(result) = <<"b">>

(* C5.  The inclusion decision consults one directive: a node with @skip is  *)
(* dropped exactly when skip's `if` is true (an @include beside it is not    *)
(* consulted); otherwise a node with @include is dropped exactly when its    *)
(* `if`, resolved through the variables, is false; a node with neither is    *)
(* included.  So the response keys of the result are those of the walk that  *)
(* drops exactly these nodes.                                                *)
C5_OneDirectiveConsulted ==
    status = "returned" => RangeOf(Keys(result)) = RangeOf(Keys(Occurrences))

\* @skip(if: true) @include(if: true) is excluded; @include(if: $showName)
\* with showName = true is included.
C5_Witness ==
    /\ status = "returned"
    /\ selSet = <<Field("a", "a", <<>>, <<SkipIf("true"), IncludeIf("true")>>, <<>>),
                  FieldWithArgs(<<IncludeVar("showName")>>)>>
    /\ reqCtx.Variables["showName"] = GoBool("true")
    /\ Keys(result) = <<"b">>

(* C10.  Fatal errors abort the call: at a node of an unrecognized kind, or  *)
(* whose consulted directive lacks `if` or has a non-boolean `if`, or that   *)
(* is an expanded spread of a fragment the document does not define, the     *)
(* call panics at whatever depth, returns no list, and stays panicked.       *)
Fatal(n) ==
    \/ n.kind \notin {"Field", "InlineFragment", "FragmentSpread"}
    \/ /\ n.kind \in {"Field", "InlineFragment", "FragmentSpread"}
       /\ Malformed(n.Directives)
    \/ /\ n.kind = "FragmentSpread"
       /\ ControlPass(n.Directives)
       /\ n.Name \notin visited
       /\ n.Name \notin DOMAIN reqCtx.Fragments

C10_FatalErrorsAbort ==
    [][/\ (AtNode /\ Fatal(Sel)) =>
              /\ status' = "panicked"
              /\ panicValue' # NoPanic
              /\ stack' = <<>>
              /\ result' = <<>>
       /\ status = "panicked" => (status' = "panicked" /\ result' = <<>>)]_vars

\* A malformed directive inside fragment A aborts the call on a spread of A.
C10_Witness ==
    /\ status = "panicked"
    /\ selSet = <<FragmentSpread("A", <<>>)>>
    /\ panicValue = <<"skip", "argument 'if' not defined">>
    /\ result = <<>>

====
